---------------------------- MODULE Spec2Model ----------------------------
(***************************************************************************)
(* CodeCollab swarm: the handoff state machine that sequences the five     *)
(* role agents, CodeCollabSwarm.process_task that turns a swarm result     *)
(* into the Run Result, and PaymentCalculator.calculate_payment.           *)
(*                                                                         *)
(* The handoff state machine itself is strands.multiagent.Swarm, imported  *)
(* at swarm_orchestrator.py:6 and configured at lines 42-50; its code is   *)
(* not part of the sources, so its steps follow section 4.1 of the design  *)
(* document.  Everything else is translated from the Python sources.       *)
(*                                                                         *)
(* Money is counted in ticks of 1e-7 dollar (the price of one token,       *)
(* TOKEN_COST_PER_1K / 1000), so that every product of the price tables    *)
(* is an integer: base prices in cents, multipliers in percent.            *)
(***************************************************************************)
EXTENDS Integers, Sequences, FiniteSets, TLC

VARIABLES
    current_node,       \* role whose activation is next or in flight
    node_history,       \* agent sequence: roles of the completed activations
    handoffs,           \* transitions applied so far
    completion_status,  \* "executing", "success" or a failure tag
    phase,              \* "ready" | "inflight" | "done" | "mocked"
    detours,            \* directives so far that left the prompted pipeline order
    task_description,   \* argument of process_task
    pc,                 \* process_task: "idle" | "running" | "returned" | "raised"
    response,           \* record returned by process_task
    pay_in,             \* arguments of calculate_payment
    payment,            \* record returned by calculate_payment
    other,              \* a second call of calculate_payment: its arguments and record
    results,            \* texts of the swarm result's node results, by role
    ext_in,             \* text handed to an extraction step of process_task
    ext_out             \* what the extraction step made of it

vars == <<current_node, node_history, handoffs, completion_status, phase,
          detours, task_description, pc, response, pay_in, payment, other,
          results, ext_in, ext_out>>

swarmVars == <<current_node, node_history, handoffs, completion_status, phase, detours>>
taskVars == <<task_description, pc, response, results>>
payVars == <<pay_in, payment, other>>
extVars == <<ext_in, ext_out>>

None == "None"

(***************************************************************************)
(* Configuration of the swarm (CodeCollabSwarm.__init__)                   *)
(***************************************************************************)
agents ==
    <<"requirements_agent", "context_agent", "builder_agent",
      "quality_agent", "escalation_agent">>

Roles == {agents[i] : i \in 1..Len(agents)}

max_handoffs == 10
max_iterations == 10
repetitive_handoff_detection_window == 5
repetitive_handoff_min_unique_agents == 3

\* Directives that leave the prompted order requirements -> context -> builder
\* -> quality -> escalation are limited to MaxDetours per run.
MaxDetours == 2

RoleIndex(r) == CHOOSE i \in 1..Len(agents) : agents[i] = r

\* The role each system prompt tells its agent to hand off to; the escalation
\* prompt says "DO NOT call handoff_to_agent".
PromptedNext(r) ==
    IF RoleIndex(r) < Len(agents) THEN agents[RoleIndex(r) + 1] ELSE None

Range(s) == {s[i] : i \in 1..Len(s)}

LastN(s, n) == IF Len(s) <= n THEN s ELSE SubSeq(s, Len(s) - n + 1, Len(s))

(***************************************************************************)
(* PaymentCalculator (payment_calculator.py)                               *)
(***************************************************************************)
TicksPerCent == 100000

\* BASE_PRICING, in cents
BASE_PRICING == [simple |-> 3, medium |-> 8, complex |-> 20, unknown |-> 5]

\* Variants: a table with two of its entries exchanged
QUALITY_MULTIPLIERS_exchanged == [excellent |-> 115, good |-> 130, acceptable |-> 100, needs_work |-> 80]

TIME_BONUS_exchanged == [very_fast |-> 110, fast |-> 100, normal |-> 105, slow |-> 95]

\* QUALITY_MULTIPLIERS and TIME_BONUS, in percent
QUALITY_MULTIPLIERS == [excellent |-> 130, good |-> 115, acceptable |-> 100, needs_work |-> 80]

TIME_BONUS == [very_fast |-> 110, fast |-> 105, normal |-> 100, slow |-> 95]

\* TOKEN_COST_PER_1K = 0.0001 dollar = 1000 ticks per 1000 tokens
TOKEN_COST_PER_1K == 1000

\* str.lower() on the complexity tags the model passes
Lower(c) ==
    CASE c = "SIMPLE" -> "simple"
      [] c = "Complex" -> "complex"
      [] OTHER -> c

\* Variant: a score outside 0..100 is given the lowest tier
_get_quality_tier_in_range(score) ==
    IF score > 100 \/ score < 0 THEN "needs_work"
    ELSE IF score >= 95 THEN "excellent"
    ELSE IF score >= 85 THEN "good"
    ELSE IF score >= 70 THEN "acceptable"
    ELSE "needs_work"

_get_quality_tier(score) ==
    IF score >= 95 THEN "excellent"
    ELSE IF score >= 85 THEN "good"
    ELSE IF score >= 70 THEN "acceptable"
    ELSE "needs_work"

\* Variant: exactly 120 s is already slow
_get_time_tier_exclusive(execution_time_sec) ==
    IF execution_time_sec < 30000 THEN "very_fast"
    ELSE IF execution_time_sec < 60000 THEN "fast"
    ELSE IF execution_time_sec < 120000 THEN "normal"
    ELSE "slow"

\* execution_time_sec is kept in milliseconds: 30 s is 30000
_get_time_tier(execution_time_sec) ==
    IF execution_time_sec < 30000 THEN "very_fast"
    ELSE IF execution_time_sec < 60000 THEN "fast"
    ELSE IF execution_time_sec <= 120000 THEN "normal"
    ELSE "slow"

\* round(x, n) on a non-negative quantity, to a multiple of unit.  A value that
\* is an exact half unit in decimal is not one in binary floating point: the
\* double lies just above or just below it, and round() follows the double
\* (half_up tells which).
RoundTo(x, unit, half_up) ==
    LET lo == x \div unit
        r  == x % unit
    IN  IF 2 * r > unit \/ (2 * r = unit /\ half_up)
        THEN (lo + 1) * unit
        ELSE lo * unit

\* Variant: the payment is left unrounded
Round2None(ticks, half_up) == ticks

\* round(final_payment, 2): to the cent
Round2(ticks, half_up) == RoundTo(ticks, TicksPerCent, half_up)

\* The three roundings of one call, each with its own direction at a half unit
HalfUps == [{"amount", "token_cost", "execution_time_sec"} -> BOOLEAN]

AtHalf(x, unit) == 2 * (x % unit) = unit

Max(a, b) == IF a >= b THEN a ELSE b

\* Variant: the token cost is charged without the tokens_used > 0 guard
TokenCostUnguarded(tokens_used) == (tokens_used * TOKEN_COST_PER_1K) \div 1000

TokenCost(tokens_used) ==
    IF tokens_used > 0 THEN (tokens_used * TOKEN_COST_PER_1K) \div 1000 ELSE 0

\* Variant: every line of code adds a cent to the price
calculate_payment_per_line(complexity, quality_score, execution_time_ms, tokens_used, code_lines, half_up) ==
    LET complexity_lower == IF complexity \in {None, ""} THEN "unknown" ELSE Lower(complexity)
        base_price == IF complexity_lower \in DOMAIN BASE_PRICING
                      THEN BASE_PRICING[complexity_lower]
                      ELSE BASE_PRICING["unknown"]
        quality_tier == _get_quality_tier(quality_score)
        quality_multiplier == QUALITY_MULTIPLIERS[quality_tier]
        execution_time_sec == IF execution_time_ms > 0 THEN execution_time_ms ELSE 0
        time_tier == _get_time_tier(execution_time_sec)
        time_multiplier == TIME_BONUS[time_tier]
        token_cost == TokenCost(tokens_used)
        \* cents * percent * percent = 1e-6 dollar = 10 ticks
        adjusted_price == base_price * quality_multiplier * time_multiplier * 10
                          + code_lines * TicksPerCent
        final_payment == Max(TicksPerCent, Round2(adjusted_price + token_cost, half_up["amount"]))
    IN  [amount |-> final_payment,
         currency |-> "USD",
         breakdown |->
            [base_price |-> base_price,
             complexity |-> complexity_lower,
             quality_score |-> quality_score,
             quality_tier |-> quality_tier,
             quality_multiplier |-> quality_multiplier,
             execution_time_sec |-> RoundTo(execution_time_sec, 10, half_up["execution_time_sec"]),
             time_tier |-> time_tier,
             time_multiplier |-> time_multiplier,
             token_cost |-> RoundTo(token_cost, 1000, half_up["token_cost"]),
             tokens_used |-> tokens_used,
             code_lines |-> code_lines]]

calculate_payment(complexity, quality_score, execution_time_ms, tokens_used, code_lines, half_up) ==
    LET complexity_lower == IF complexity \in {None, ""} THEN "unknown" ELSE Lower(complexity)
        base_price == IF complexity_lower \in DOMAIN BASE_PRICING
                      THEN BASE_PRICING[complexity_lower]
                      ELSE BASE_PRICING["unknown"]
        quality_tier == _get_quality_tier(quality_score)
        quality_multiplier == QUALITY_MULTIPLIERS[quality_tier]
        execution_time_sec == IF execution_time_ms > 0 THEN execution_time_ms ELSE 0
        time_tier == _get_time_tier(execution_time_sec)
        time_multiplier == TIME_BONUS[time_tier]
        token_cost == TokenCost(tokens_used)
        \* cents * percent * percent = 1e-6 dollar = 10 ticks
        adjusted_price == base_price * quality_multiplier * time_multiplier * 10
        final_payment == Max(TicksPerCent, Round2(adjusted_price + token_cost, half_up["amount"]))
    IN  [amount |-> final_payment,
         currency |-> "USD",
         breakdown |->
            [base_price |-> base_price,
             complexity |-> complexity_lower,
             quality_score |-> quality_score,
             quality_tier |-> quality_tier,
             quality_multiplier |-> quality_multiplier,
             execution_time_sec |-> RoundTo(execution_time_sec, 10, half_up["execution_time_sec"]),
             time_tier |-> time_tier,
             time_multiplier |-> time_multiplier,
             token_cost |-> RoundTo(token_cost, 1000, half_up["token_cost"]),
             tokens_used |-> tokens_used,
             code_lines |-> code_lines]]

\* The directions the roundings of one call can take: a rounding has two only
\* when its value is at an exact half unit
Roundings(complexity, quality_score, execution_time_ms, tokens_used) ==
    LET p == calculate_payment(complexity, quality_score, execution_time_ms, tokens_used, 0,
                               [k \in {"amount", "token_cost", "execution_time_sec"} |-> FALSE])
        b == p.breakdown
        open ==
            (IF AtHalf(b.base_price * b.quality_multiplier * b.time_multiplier * 10
                         + TokenCost(tokens_used), TicksPerCent)
             THEN {"amount"} ELSE {})
            \cup (IF AtHalf(TokenCost(tokens_used), 1000) THEN {"token_cost"} ELSE {})
            \cup (IF execution_time_ms > 0 /\ AtHalf(execution_time_ms, 10)
                  THEN {"execution_time_sec"} ELSE {})
    IN  {h \in HalfUps : \A k \in DOMAIN h : h[k] => k \in open}

(***************************************************************************)
(* Handoff state machine (design document, section 4.1)                    *)
(***************************************************************************)
BoundTags == {"handoff_limit", "iteration_limit", "repetitive_handoff"}
TimeoutTags == {"node_timeout", "execution_timeout"}
FailureTags == BoundTags \cup TimeoutTags \cup {"failed"}

\* Variant: the detection also looks at sequences shorter than the window
RepetitiveHandoffAnyLength(h) ==
    Cardinality(Range(LastN(h, repetitive_handoff_detection_window)))
       < repetitive_handoff_min_unique_agents

RepetitiveHandoff(h) ==
    /\ Len(h) >= repetitive_handoff_detection_window
    /\ Cardinality(Range(LastN(h, repetitive_handoff_detection_window)))
          < repetitive_handoff_min_unique_agents

\* Variants: one of the bounds is not checked
ViolationsNoIterationLimit(h, k) ==
    (IF k + 1 > max_handoffs THEN {"handoff_limit"} ELSE {})
    \cup (IF RepetitiveHandoff(h) THEN {"repetitive_handoff"} ELSE {})

ViolationsNoRepetition(h, k) ==
    (IF k + 1 > max_handoffs THEN {"handoff_limit"} ELSE {})
    \cup (IF Len(h) + 1 > max_iterations THEN {"iteration_limit"} ELSE {})

\* The bounds a transition out of sequence h with k transitions applied would
\* break.  The document fixes no order among them.
Violations(h, k) ==
    (IF k + 1 > max_handoffs THEN {"handoff_limit"} ELSE {})
    \cup (IF Len(h) + 1 > max_iterations THEN {"iteration_limit"} ELSE {})
    \cup (IF RepetitiveHandoff(h) THEN {"repetitive_handoff"} ELSE {})

Terminate(tag) ==
    /\ completion_status' = tag
    /\ phase' = "done"

\* The handoff is applied after the activation record h[Len(h)] is appended.
Apply(h, target) ==
    /\ node_history' = h
    /\ current_node' = target
    /\ handoffs' = handoffs + 1
    /\ phase' = "ready"
    /\ UNCHANGED completion_status

\* Variant: the refused activation is dropped and the same agent is asked again
RefuseRetry(h, tags) ==
    /\ phase' = "ready"
    /\ UNCHANGED <<node_history, completion_status, current_node, handoffs>>

\* A handoff that breaks a bound is not applied: the run ends with a tag.
Refuse(h, tags) ==
    /\ node_history' = h
    /\ \E tag \in tags : Terminate(tag)
    /\ UNCHANGED <<current_node, handoffs>>

Invoke ==
    /\ pc = "running"
    /\ completion_status = "executing"
    /\ phase = "ready"
    /\ phase' = "inflight"
    /\ UNCHANGED <<current_node, node_history, handoffs, completion_status, detours>>
    /\ UNCHANGED <<taskVars, payVars, extVars>>

\* The activation returns without a handoff directive: normal termination.
ReturnFinal ==
    /\ pc = "running"
    /\ completion_status = "executing"
    /\ phase = "inflight"
    /\ node_history' = Append(node_history, current_node)
    /\ Terminate("success")
    /\ UNCHANGED <<current_node, handoffs, detours>>
    /\ UNCHANGED <<taskVars, payVars, extVars>>

\* The activation returns with a directive naming target.
ReturnHandoff(target) ==
    /\ pc = "running"
    /\ completion_status = "executing"
    /\ phase = "inflight"
    /\ target = PromptedNext(current_node) \/ detours < MaxDetours
    /\ detours' = IF target = PromptedNext(current_node) THEN detours ELSE detours + 1
    /\ LET h == Append(node_history, current_node)
       IN  IF Violations(h, handoffs) = {}
           THEN Apply(h, target)
           ELSE Refuse(h, Violations(h, handoffs))
    /\ UNCHANGED <<taskVars, payVars, extVars>>

\* Variant: the partial result of the activation in flight is recorded
NodeTimeoutKeepsPartial ==
    /\ pc = "running"
    /\ completion_status = "executing"
    /\ phase = "inflight"
    /\ Terminate("node_timeout")
    /\ node_history' = Append(node_history, current_node)
    /\ UNCHANGED <<current_node, handoffs, detours>>
    /\ UNCHANGED <<taskVars, payVars, extVars>>

\* node_timeout: the activation in flight is abandoned, nothing is appended.
NodeTimeout ==
    /\ pc = "running"
    /\ completion_status = "executing"
    /\ phase = "inflight"
    /\ Terminate("node_timeout")
    /\ UNCHANGED <<current_node, node_history, handoffs, detours>>
    /\ UNCHANGED <<taskVars, payVars, extVars>>

\* execution_timeout: the wall-clock ceiling of the run expires.
ExecutionTimeout ==
    /\ pc = "running"
    /\ completion_status = "executing"
    /\ Terminate("execution_timeout")
    /\ UNCHANGED <<current_node, node_history, handoffs, detours>>
    /\ UNCHANGED <<taskVars, payVars, extVars>>

\* The capability invocation fails (transport or model error).
InvocationFailure ==
    /\ pc = "running"
    /\ completion_status = "executing"
    /\ phase = "inflight"
    /\ Terminate("failed")
    /\ UNCHANGED <<current_node, node_history, handoffs, detours>>
    /\ UNCHANGED <<taskVars, payVars, extVars>>

SwarmNext ==
    \/ Invoke
    \/ ReturnFinal
    \/ \E target \in Roles : ReturnHandoff(target)
    \/ NodeTimeout
    \/ ExecutionTimeout
    \/ InvocationFailure

SwarmInit ==
    /\ current_node = agents[1]
    /\ node_history = <<>>
    /\ handoffs = 0
    /\ completion_status = "executing"
    /\ phase = "ready"
    /\ detours = 0

(***************************************************************************)
(* Texts.  A text is the set of phrases it is made of; a scan of the code  *)
(* ("x in text", "x in text.upper()") is a scan of its phrases.            *)
(***************************************************************************)
Phrases ==
    {"DECISION: ESCALATE", "DECISION: COMPLETE", "DO NOT ESCALATE",
     "ESCALATE", "escalate", "COMPLETE", "PENDING", "prose", "repr"}

\* The phrases that have needle as a substring
Superstrings(needle) ==
    CASE needle = "DECISION: ESCALATE" -> {"DECISION: ESCALATE"}
      [] needle = "DECISION: COMPLETE" -> {"DECISION: COMPLETE"}
      [] needle = "DO NOT ESCALATE" -> {"DO NOT ESCALATE"}
      [] needle = "ESCALATE" -> {"ESCALATE", "DECISION: ESCALATE", "DO NOT ESCALATE"}
      [] OTHER -> {needle}

\* str.upper()
Upper(p) ==
    CASE p = "escalate" -> "ESCALATE"
      [] p = "prose" -> "PROSE"
      [] p = "repr" -> "REPR"
      [] OTHER -> p

Contains(text, needle) == \E p \in text : p \in Superstrings(needle)

UpperContains(text, needle) == \E p \in text : Upper(p) \in Superstrings(needle)

(***************************************************************************)
(* CodeCollabSwarm.process_task (swarm_orchestrator.py)                    *)
(***************************************************************************)
Ok(v) == [raised |-> FALSE, value |-> v]
Raise(e) == [raised |-> TRUE, value |-> e]

\* A Python value that may be None: <<>> is None, <<v>> is v
Some(v) == <<v>>

IsDict(result) == result.kind = "dict"

\* Variant: without the scan for the bare word when no marker is found
extract_decision_markers_only(final_result_str) ==
    IF Contains(final_result_str, "DECISION: ESCALATE") THEN "ESCALATE" ELSE "COMPLETE"

\* Variant: no default decision when no marker is found
extract_decision_no_default(final_result_str) ==
    IF Contains(final_result_str, "DECISION: ESCALATE") THEN "ESCALATE"
    ELSE IF Contains(final_result_str, "DECISION: COMPLETE") THEN "COMPLETE"
    ELSE IF /\ UpperContains(final_result_str, "ESCALATE")
            /\ ~UpperContains(final_result_str, "DO NOT ESCALATE")
         THEN "ESCALATE"
    ELSE "UNKNOWN"

\* Lines 283-292
extract_decision(final_result_str) ==
    IF Contains(final_result_str, "DECISION: ESCALATE") THEN "ESCALATE"
    ELSE IF Contains(final_result_str, "DECISION: COMPLETE") THEN "COMPLETE"
    ELSE IF /\ UpperContains(final_result_str, "ESCALATE")
            /\ ~UpperContains(final_result_str, "DO NOT ESCALATE")
         THEN "ESCALATE"
    ELSE "COMPLETE"

\* str(result)[:1000]: of a mock dict, its string values; of a result object,
\* the dataclass rendering with the texts of its node results
StrOf(result) ==
    IF IsDict(result)
    THEN {result.fields[k] : k \in DOMAIN result.fields} \cup {"repr"}
    ELSE UNION {result.results[r].phrases : r \in DOMAIN result.results} \cup {"repr"}

\* Lines 197-230
FinalResultStr(result) ==
    IF IsDict(result) THEN StrOf(result)
    ELSE LET from_results ==
                 IF "escalation_agent" \in DOMAIN result.results
                 THEN result.results["escalation_agent"].phrases
                 ELSE {}
             h == result.node_history
             from_history ==
                 IF from_results = {} /\ h # <<>> /\ h[Len(h)] \in DOMAIN result.results
                 THEN result.results[h[Len(h)]].phrases
                 ELSE from_results
         IN  IF from_history = {} THEN StrOf(result) ELSE from_history

\* Lines 358-379: the tags are looked for in the order simple, medium, complex
_extract_complexity(result) ==
    IF IsDict(result) \/ "requirements_agent" \notin DOMAIN result.results
    THEN "unknown"
    ELSE LET tags == Range(result.results["requirements_agent"].complexity)
         IN  IF "simple" \in tags THEN "simple"
             ELSE IF "medium" \in tags THEN "medium"
             ELSE IF "complex" \in tags THEN "complex"
             ELSE "unknown"

\* Variant: the payload is looked at before the text
_extract_quality_score_payload_first(result) ==
    IF IsDict(result) \/ "quality_agent" \notin DOMAIN result.results
    THEN Ok(85)
    ELSE LET q == result.results["quality_agent"]
         IN  IF q.payload # <<>>
             THEN IF q.payload[1] = "int"
                  THEN Ok(q.payload[2])
                  ELSE Raise("invalid literal for int()")
             ELSE IF q.score # <<>> THEN Ok(q.score[1])
             ELSE Ok(85)

\* Lines 381-403.  score is the match of the Score pattern in the quality
\* text, payload the quality_score entry of the node's context.
_extract_quality_score(result) ==
    IF IsDict(result) \/ "quality_agent" \notin DOMAIN result.results
    THEN Ok(85)
    ELSE LET q == result.results["quality_agent"]
         IN  IF q.score # <<>> THEN Ok(q.score[1])
             ELSE IF q.payload # <<>>
                  THEN IF q.payload[1] = "int"
                       THEN Ok(q.payload[2])
                       ELSE Raise("invalid literal for int()")
             ELSE Ok(85)

\* Lines 164-168
AgentSequence(result) == IF IsDict(result) THEN <<>> ELSE result.node_history

\* Variant: the count without the guard for short sequences
HandoffCountUnguarded(agent_sequence) == Len(agent_sequence) - 1

HandoffCount(agent_sequence) ==
    IF Len(agent_sequence) > 1 THEN Len(agent_sequence) - 1 ELSE 0

\* Variant: agent_outputs is kept between the calls instead of starting empty
AgentOutputsKept(agent_sequence) ==
    [r \in Range(agent_sequence) \cup other.roles |->
        IF r \in Range(agent_sequence)
        THEN CHOOSE i \in 1..Len(agent_sequence) :
                /\ agent_sequence[i] = r
                /\ \A j \in (i + 1)..Len(agent_sequence) : agent_sequence[j] # r
        ELSE 0]

\* Lines 178-195: one entry per role, written anew by each of its activations;
\* the entry is named by the position of the activation it comes from
AgentOutputs(agent_sequence) ==
    [r \in Range(agent_sequence) |->
        CHOOSE i \in 1..Len(agent_sequence) :
            /\ agent_sequence[i] = r
            /\ \A j \in (i + 1)..Len(agent_sequence) : agent_sequence[j] # r]

\* Line 281
SuccessStatus(result) ==
    IF IsDict(result)
    THEN IF "success" \in DOMAIN result.fields
         THEN result.fields["success"] = "True"
         ELSE TRUE
    ELSE result.status = "success"

\* Lines 331-335
PassThroughKeys == {"decision", "final_decision", "code", "tests", "tokens_used", "latency_ms"}

\* Variant: a record without success carries no payment
PassThroughUnpaidFailure(resp, result) ==
    LET r == IF IsDict(result)
             THEN [k \in (DOMAIN result.fields \cap PassThroughKeys) |-> result.fields[k]] @@ resp
             ELSE resp
    IN  IF r.success THEN r ELSE [k \in DOMAIN r \ {"payment"} |-> r[k]]

PassThrough(resp, result) ==
    IF IsDict(result)
    THEN [k \in (DOMAIN result.fields \cap PassThroughKeys) |-> result.fields[k]] @@ resp
    ELSE resp

\* Lines 161-337, after the swarm has returned.  final_message is final_result
\* cut to 300 characters; the node results of the runs modelled here carry no
\* code block and no context, so deliverables and shared_knowledge are empty.
BuildResponse(result, task, half_up) ==
    LET agent_sequence == AgentSequence(result)
        execution_time_ms == IF IsDict(result) THEN 0 ELSE result.execution_time
        final_result_str == FinalResultStr(result)
        final_decision == extract_decision(final_result_str)
        quality == _extract_quality_score(result)
        tokens_used == IF IsDict(result) THEN Some(0) ELSE result.totalTokens
    IN  IF quality.raised THEN quality
        ELSE IF tokens_used = <<>> THEN Raise("'>' not supported between NoneType and int")
        ELSE Ok(PassThrough(
               [success |-> SuccessStatus(result) /\ final_decision = "COMPLETE",
                task_description |-> task,
                final_result |-> final_result_str,
                final_message |-> final_result_str,
                agent_sequence |-> agent_sequence,
                agent_outputs |-> AgentOutputs(agent_sequence),
                deliverables |-> <<>>,
                quality_metrics |-> <<>>,
                handoff_count |-> HandoffCount(agent_sequence),
                execution_time_ms |-> execution_time_ms,
                total_tokens |-> tokens_used[1],
                shared_knowledge |-> <<>>,
                code |-> None,
                final_decision |-> final_decision,
                payment |-> calculate_payment(_extract_complexity(result), quality.value,
                                              execution_time_ms, tokens_used[1], 0, half_up)],
               result))

\* Lines 160 and 339-345
ExceptHandler(outcome, task) ==
    IF outcome.raised
    THEN [returned |-> TRUE,
          value |-> [success |-> FALSE, task_description |-> task, error |-> outcome.value]]
    ELSE [returned |-> TRUE, value |-> outcome.value]

\* call is what self.swarm(task_description) did: Ok(result) or Raise(text)
process_task(call, task, half_up) ==
    ExceptHandler(IF call.raised THEN call ELSE BuildResponse(call.value, task, half_up), task)

(***************************************************************************)
(* Inputs of a run                                                         *)
(***************************************************************************)
\* Task descriptions: a string, and a JSON number as /api/process passes it on
\* (simple_api_server.py:100-113)
Tasks == {<<"str", "Create a function to validate email addresses">>, <<"int", 5>>}

\* task_description[:100] at line 158
Sliceable(task) == task[1] = "str"

\* Texts of the node results that process_task reads for the decision
RunTexts == {{}, {"DECISION: COMPLETE"}, {"DECISION: ESCALATE"}, {"prose"}}

\* quality_score entry of the quality node's context: absent, or not a number
QualityPayloads == {<<>>, <<"str", "high">>}

\* accumulated_usage['totalTokens']: a count, or None
TokenCounts == {Some(1000), <<>>}

RunTimeMs == 20000

\* Results a test double of the swarm returns (lines 281 and 331-335)
MockFields ==
    [success |-> {"True", "False"},
     final_decision |-> {"COMPLETE", "ESCALATE", "PENDING"},
     code |-> {"prose", "escalate"}]

MockResults ==
    UNION {{[kind |-> "dict", fields |-> f] :
              f \in {g \in [D -> Phrases \cup {"True", "False"}] :
                        \A k \in D : g[k] \in MockFields[k]}} :
           D \in SUBSET (DOMAIN MockFields)}

\* The roles whose text process_task reads for the decision
ReadRoles(h) ==
    IF h = <<>> THEN {} ELSE {"escalation_agent", h[Len(h)]} \cap Range(h)

\* The result object of the terminated run: the agent sequence and status of
\* the state machine, one node result per completed role
SwarmResult(texts, payload, tokens) ==
    [kind |-> "object",
     status |-> completion_status,
     node_history |-> node_history,
     results |->
        [r \in Range(node_history) |->
            [phrases |-> IF r \in DOMAIN texts THEN texts[r] ELSE {"prose"},
             score |-> <<>>,
             payload |-> IF r = "quality_agent" THEN payload ELSE <<>>,
             complexity |-> <<>>]],
     totalTokens |-> tokens,
     execution_time |-> RunTimeMs]

NoRounding == [k \in {"amount", "token_cost", "execution_time_sec"} |-> FALSE]

\* The rounding directions open to the pricing of result
RoundingsFor(result) ==
    LET quality == _extract_quality_score(result)
        tokens_used == IF IsDict(result) THEN Some(0) ELSE result.totalTokens
    IN  IF quality.raised \/ tokens_used = <<>>
        THEN {NoRounding}
        ELSE Roundings(_extract_complexity(result), quality.value,
                       IF IsDict(result) THEN 0 ELSE result.execution_time, tokens_used[1])

(***************************************************************************)
(* process_task as steps around the run of the swarm                       *)
(***************************************************************************)
Deliver(r) ==
    /\ pc' = IF r.returned THEN "returned" ELSE "raised"
    /\ response' = r.value
    /\ UNCHANGED task_description

\* Entry: the logging line 158 slices the task description before the try
Call ==
    /\ pc = "idle"
    /\ IF Sliceable(task_description)
       THEN pc' = "running" /\ UNCHANGED response
       ELSE pc' = "raised" /\ response' = "TypeError: not subscriptable"
    /\ UNCHANGED <<task_description, results, swarmVars, payVars, extVars>>

\* The swarm returned its result object
Finish ==
    /\ pc = "running"
    /\ phase = "done"
    /\ \E texts \in [ReadRoles(node_history) -> RunTexts],
          payload \in QualityPayloads, tokens \in TokenCounts :
          LET result == SwarmResult(texts, payload, tokens)
          IN  /\ \E half_up \in RoundingsFor(result) :
                    Deliver(process_task(Ok(result), task_description, half_up))
              /\ results' = [r \in DOMAIN result.results |-> result.results[r].phrases]
    /\ UNCHANGED <<swarmVars, payVars, extVars>>

\* The swarm call itself raised (an unexpected error inside the run)
FinishRaise ==
    /\ pc = "running"
    /\ phase = "inflight"
    /\ Deliver(process_task(Raise("swarm error"), task_description, NoRounding))
    /\ UNCHANGED <<results, swarmVars, payVars, extVars>>

\* self.swarm is a test double that returns a dict at once
FinishMock ==
    /\ pc = "running"
    /\ phase = "ready"
    /\ node_history = <<>>
    /\ \E d \in MockResults :
          /\ \E half_up \in RoundingsFor(d) :
                Deliver(process_task(Ok(d), task_description, half_up))
          /\ completion_status' = IF SuccessStatus(d) THEN "success" ELSE "failed"
    /\ phase' = "mocked"
    /\ UNCHANGED <<current_node, node_history, handoffs, detours, results, payVars, extVars>>

Init ==
    /\ SwarmInit
    /\ task_description \in Tasks
    /\ pc = "idle"
    /\ response = None
    /\ pay_in = None
    /\ payment = None
    /\ other = None
    /\ results = None
    /\ ext_in = None
    /\ ext_out = None

Next ==
    \/ Call
    \/ SwarmNext
    \/ Finish
    \/ FinishRaise
    \/ FinishMock

Spec == Init /\ [][Next]_vars

(***************************************************************************)
(* The state machine alone, under the fairness of its loop: an activation  *)
(* that was invoked returns, fails or times out, and a run that can go on  *)
(* does.                                                                   *)
(***************************************************************************)
LiveInit ==
    /\ SwarmInit
    /\ task_description = <<"str", "Create a function to validate email addresses">>
    /\ pc = "running"
    /\ response = None
    /\ pay_in = None
    /\ payment = None
    /\ other = None
    /\ results = None
    /\ ext_in = None
    /\ ext_out = None

LiveSpec == LiveInit /\ [][SwarmNext]_vars /\ WF_vars(SwarmNext)

(***************************************************************************)
(* Runs in succession on the one CodeCollabSwarm of a process              *)
(* (simple_api_server.py:22-27 and 113, main.py:179).  HTTPServer serves   *)
(* one request at a time, so the runs of a process follow one another.     *)
(* The swarm starts every run with an agent sequence and context of its    *)
(* own (design document, section 5).                                       *)
(***************************************************************************)
RunsInit ==
    /\ current_node = agents[1]
    /\ node_history = <<>>
    /\ handoffs = 0
    /\ completion_status = "executing"
    /\ phase = "ready"
    /\ detours = MaxDetours - 1     \* the two runs leave the prompted order once at most
    /\ task_description = <<"str", "Create a function to validate email addresses">>
    /\ pc = "idle"
    /\ response = None
    /\ pay_in = None
    /\ payment = None
    /\ other = [runs |-> 0, roles |-> {}]
    /\ results = None
    /\ ext_in = None
    /\ ext_out = None

\* The next request: process_task is called again on the same object.  other
\* remembers the roles that were active in the run before.
NextRun ==
    /\ pc = "returned"
    /\ other.runs = 0
    /\ other' = [runs |-> 1, roles |-> Range(node_history)]
    /\ pc' = "running"
    /\ response' = None
    /\ results' = None
    /\ current_node' = agents[1]
    /\ node_history' = <<>>
    /\ handoffs' = 0
    /\ completion_status' = "executing"
    /\ phase' = "ready"
    /\ UNCHANGED <<detours, task_description, pay_in, payment, extVars>>

RunsNext == Call \/ SwarmNext \/ Finish \/ FinishRaise \/ NextRun

RunsSpec == RunsInit /\ [][RunsNext]_vars

(***************************************************************************)
(* calculate_payment on its own                                            *)
(***************************************************************************)
Complexities == {"simple", "medium", "complex", "unknown", "SIMPLE", "Complex", "epic", "", None}

QualityScores == {-5, 0, 60, 69, 70, 84, 85, 90, 94, 95, 100, 150}

ExecutionTimes == {-1, 0, 20000, 20005, 29999, 30000, 59999, 60000, 120000, 120001, 150000}

TokensUsed == {-100000, 0, 500, 1000, 70500, 100000}

CodeLines == {0, 12}

PayInputs ==
    [complexity : Complexities, quality_score : QualityScores,
     execution_time_ms : ExecutionTimes, tokens_used : TokensUsed, code_lines : CodeLines]

PayInit ==
    /\ SwarmInit
    /\ task_description = <<"str", "">>
    /\ pc = "pay"
    /\ response = None
    /\ pay_in \in PayInputs
    /\ payment = None
    /\ other = None
    /\ results = None
    /\ ext_in = None
    /\ ext_out = None

Calc ==
    /\ pc = "pay"
    /\ \E half_up \in Roundings(pay_in.complexity, pay_in.quality_score,
                                pay_in.execution_time_ms, pay_in.tokens_used) :
          payment' = calculate_payment(pay_in.complexity, pay_in.quality_score,
                                       pay_in.execution_time_ms, pay_in.tokens_used,
                                       pay_in.code_lines, half_up)
    /\ pc' = "paid"
    /\ UNCHANGED <<swarmVars, task_description, response, results, pay_in, other, extVars>>

PayNext == Calc

PaySpec == PayInit /\ [][PayNext]_vars

(***************************************************************************)
(* Two calls of calculate_payment that differ in one argument              *)
(***************************************************************************)
CmpInputs ==
    {i \in PayInputs : i.code_lines = 0 /\ i.complexity \in DOMAIN BASE_PRICING \cup {None}}

\* The operands of the three roundings of a call: calls with the same operands
\* run the same floating-point computation and round the same way
RoundedOperands(i) ==
    LET b == calculate_payment(i.complexity, i.quality_score, i.execution_time_ms,
                               i.tokens_used, i.code_lines, NoRounding).breakdown
    IN  [amount |-> <<b.base_price, b.quality_multiplier, b.time_multiplier,
                      TokenCost(i.tokens_used)>>,
         token_cost |-> <<TokenCost(i.tokens_used)>>,
         execution_time_sec |-> <<Max(i.execution_time_ms, 0)>>]

CmpInit ==
    /\ SwarmInit
    /\ task_description = <<"str", "">>
    /\ pc = "cmp"
    /\ response = None
    /\ pay_in \in CmpInputs
    /\ payment = None
    /\ other = None
    /\ results = None
    /\ ext_in = None
    /\ ext_out = None

Compare(second) ==
    /\ pc = "cmp"
    /\ \E h1 \in Roundings(pay_in.complexity, pay_in.quality_score,
                           pay_in.execution_time_ms, pay_in.tokens_used),
          h2 \in Roundings(second.complexity, second.quality_score,
                           second.execution_time_ms, second.tokens_used) :
          /\ \A k \in DOMAIN h1 :
                RoundedOperands(pay_in)[k] = RoundedOperands(second)[k] => h1[k] = h2[k]
          /\ payment' = calculate_payment(pay_in.complexity, pay_in.quality_score,
                                          pay_in.execution_time_ms, pay_in.tokens_used,
                                          pay_in.code_lines, h1)
          /\ other' = [input |-> second,
                       payment |-> calculate_payment(second.complexity, second.quality_score,
                                                     second.execution_time_ms, second.tokens_used,
                                                     second.code_lines, h2)]
    /\ pc' = "compared"
    /\ UNCHANGED <<swarmVars, task_description, response, results, pay_in, extVars>>

CompareQuality == \E q \in QualityScores : Compare([pay_in EXCEPT !.quality_score = q])

CompareTime == \E t \in ExecutionTimes : Compare([pay_in EXCEPT !.execution_time_ms = t])

CompareCodeLines == \E n \in CodeLines : Compare([pay_in EXCEPT !.code_lines = n])

CmpNext == CompareQuality \/ CompareTime \/ CompareCodeLines

CmpSpec == CmpInit /\ [][CmpNext]_vars

(***************************************************************************)
(* The extraction steps of process_task on their own                       *)
(***************************************************************************)
MaxBlocks == 2

\* Fenced python blocks (re.findall at lines 235 and 265), told apart by the
\* markers the code looks for in them
BlockKinds ==
    {"impl", "pytest_test", "unittest_test", "unittest_camel", "pytest_fixture",
     "snippet", "blank"}

Markers(block) ==
    CASE block = "impl" -> {"def "}
      [] block = "pytest_test" -> {"def ", "def test_", "import pytest"}
      [] block = "unittest_test" -> {"def ", "class ", "def test_", "import unittest"}
      [] block = "unittest_camel" -> {"def ", "class ", "import unittest"}
      [] block = "pytest_fixture" -> {"def ", "import pytest"}
      [] OTHER -> {}

\* block.strip()
Strip(block) == IF block = "blank" THEN "" ELSE block

MinOf(S) == CHOOSE i \in S : \A j \in S : i <= j

\* Variant: the first block is taken whatever it holds
TerminalChoiceFirst(code_blocks) == 1

\* Lines 236-248: the index of the block that becomes deliverables['code']
TerminalChoice(code_blocks) ==
    LET main == {i \in 1..Len(code_blocks) :
                    /\ "def test_" \notin Markers(code_blocks[i])
                    /\ "import pytest" \notin Markers(code_blocks[i])
                    /\ Markers(code_blocks[i]) \cap {"def ", "class "} # {}}
    IN  IF main # {} THEN MinOf(main) ELSE 1

\* Lines 266-275
BuilderChoice(builder_code_blocks) ==
    LET main == {i \in 1..Len(builder_code_blocks) :
                    /\ "def test_" \notin Markers(builder_code_blocks[i])
                    /\ "import unittest" \notin Markers(builder_code_blocks[i])
                    /\ Markers(builder_code_blocks[i]) \cap {"def ", "class "} # {}}
    IN  IF main # {} THEN MinOf(main) ELSE 1

\* Lines 232-275 and 327.  code_blocks are the blocks of final_result_str,
\* builder the blocks of the builder's text, <<>> of None when builder_agent
\* has no result.  code is None when deliverables has no 'code' key.
extract_code(code_blocks, builder) ==
    LET terminal ==
            IF code_blocks # <<>>
            THEN [code |-> Strip(code_blocks[TerminalChoice(code_blocks)]),
                  source |-> "terminal", index |-> TerminalChoice(code_blocks)]
            ELSE [code |-> None, source |-> None, index |-> 0]
    IN  IF terminal.code \in {None, ""} /\ builder # <<>> /\ builder[1] # <<>>
        THEN [code |-> Strip(builder[1][BuilderChoice(builder[1])]),
              source |-> "builder", index |-> BuilderChoice(builder[1])]
        ELSE terminal

BlockLists == UNION {[1..n -> BlockKinds] : n \in 0..MaxBlocks}

\* What the Score pattern of line 394 can match, and what the context of the
\* quality node can hold as quality_score
ScoreMatches == {<<>>, <<0>>, <<72>>, <<100>>, <<150>>}

ScorePayloads == {<<>>, <<"int", -5>>, <<"int", 90>>, <<"str", "high">>}

\* The complexity tags the requirements text names after "complexity:", in the
\* order of the text
ComplexityTexts ==
    UNION {[1..n -> {"simple", "medium", "complex", "epic"}] : n \in 0..2}

ExtInputs ==
    [kind : {"decision"}, text : SUBSET Phrases]
    \cup [kind : {"code"}, code_blocks : BlockLists,
          builder : {<<>>} \cup {<<b>> : b \in BlockLists}]
    \cup [kind : {"quality"}, ran : BOOLEAN, score : ScoreMatches, payload : ScorePayloads]
    \cup [kind : {"complexity"}, ran : BOOLEAN, tags : ComplexityTexts]

\* The result object whose quality node matched score and carries payload
QualityResult(ran, score, payload) ==
    [kind |-> "object",
     results |-> IF ran
                 THEN [r \in {"quality_agent"} |->
                          [phrases |-> {"prose"}, score |-> score,
                           payload |-> payload, complexity |-> <<>>]]
                 ELSE <<>>]

ExtInit ==
    /\ SwarmInit
    /\ task_description = <<"str", "">>
    /\ pc = "extract"
    /\ response = None
    /\ pay_in = None
    /\ payment = None
    /\ other = None
    /\ results = None
    /\ ext_in \in ExtInputs
    /\ ext_out = None

Extracted(value) ==
    /\ ext_out' = value
    /\ pc' = "extracted"
    /\ UNCHANGED <<swarmVars, task_description, response, results, payVars, ext_in>>

ExtractDecision ==
    /\ pc = "extract"
    /\ ext_in.kind = "decision"
    /\ Extracted(extract_decision(ext_in.text))

ExtractCode ==
    /\ pc = "extract"
    /\ ext_in.kind = "code"
    /\ Extracted(extract_code(ext_in.code_blocks, ext_in.builder))

ExtractQuality ==
    /\ pc = "extract"
    /\ ext_in.kind = "quality"
    /\ Extracted(_extract_quality_score(QualityResult(ext_in.ran, ext_in.score, ext_in.payload)))

\* The result object whose requirements node names tags
ComplexityResult(ran, tags) ==
    [kind |-> "object",
     results |-> IF ran
                 THEN [r \in {"requirements_agent"} |->
                          [phrases |-> {"prose"}, score |-> <<>>,
                           payload |-> <<>>, complexity |-> tags]]
                 ELSE <<>>]

ExtractComplexity ==
    /\ pc = "extract"
    /\ ext_in.kind = "complexity"
    /\ Extracted(_extract_complexity(ComplexityResult(ext_in.ran, ext_in.tags)))

ExtNext == ExtractDecision \/ ExtractCode \/ ExtractQuality \/ ExtractComplexity

ExtSpec == ExtInit /\ [][ExtNext]_vars


(***************************************************************************)
(* The per-role records of a run: the loops over result.node_history      *)
(***************************************************************************)

MaxHistory == 3

RecordedRoles == {"requirements_agent", "builder_agent"}

\* A node of the history: which of its attributes are set (truthy).  The value
\* of an attribute of the i-th node is named by i.
HistoryNodes ==
    [node_id : RecordedRoles, response : BOOLEAN, context : BOOLEAN,
     handoff_message : BOOLEAN]

NodeHistories == UNION {[1..n -> HistoryNodes] : n \in 0..MaxHistory}

Attr(present, i) == IF present THEN <<i>> ELSE <<>>

\* Writes d[key] = value
Store(d, key, value) ==
    [k \in DOMAIN d \cup {key} |-> IF k = key THEN value ELSE d[k]]

RecInit ==
    /\ SwarmInit
    /\ task_description = <<"str", "">>
    /\ pc = "agent_outputs"
    /\ response = None
    /\ pay_in = None
    /\ payment = None
    /\ other = None
    /\ results = None
    /\ ext_in \in [kind : {"history"}, node_history : NodeHistories]
    /\ ext_out = [i |-> 0, agent_outputs |-> <<>>, knowledge |-> <<>>]

\* Lines 178-195: one pass of the loop that fills agent_outputs; the entry of
\* the node's role is assigned whatever the node carries
RecordOutput ==
    /\ pc = "agent_outputs"
    /\ ext_out.i < Len(ext_in.node_history)
    /\ LET i == ext_out.i + 1
           node == ext_in.node_history[i]
           agent_output == [response |-> Attr(node.response, i),
                            context |-> Attr(node.context, i),
                            handoff_message |-> Attr(node.handoff_message, i)]
       IN  ext_out' = [ext_out EXCEPT
                          !.i = i,
                          !.agent_outputs = Store(@, node.node_id, agent_output)]
    /\ UNCHANGED <<swarmVars, task_description, pc, response, results, payVars, ext_in>>

\* The first loop is over; line 278 calls _extract_shared_knowledge
OutputsDone ==
    /\ pc = "agent_outputs"
    /\ ext_out.i = Len(ext_in.node_history)
    /\ pc' = "shared_knowledge"
    /\ ext_out' = [ext_out EXCEPT !.i = 0]
    /\ UNCHANGED <<swarmVars, task_description, response, results, payVars, ext_in>>

\* Line 351
HasContext(node) == node.context

\* Lines 350-355: one pass of the loop of _extract_shared_knowledge
RecordKnowledge ==
    /\ pc = "shared_knowledge"
    /\ ext_out.i < Len(ext_in.node_history)
    /\ LET i == ext_out.i + 1
           node == ext_in.node_history[i]
           entry == [contribution |-> i,
                     handoff_message |-> Attr(node.handoff_message, i)]
       IN  ext_out' = [ext_out EXCEPT
                          !.i = i,
                          !.knowledge = IF HasContext(node)
                                        THEN Store(@, node.node_id, entry)
                                        ELSE @]
    /\ UNCHANGED <<swarmVars, task_description, pc, response, results, payVars, ext_in>>

\* Line 356
KnowledgeDone ==
    /\ pc = "shared_knowledge"
    /\ ext_out.i = Len(ext_in.node_history)
    /\ pc' = "recorded"
    /\ UNCHANGED <<swarmVars, task_description, response, results, payVars, extVars>>

RecNext == RecordOutput \/ OutputsDone \/ RecordKnowledge \/ KnowledgeDone

RecSpec == RecInit /\ [][RecNext]_vars


(***************************************************************************)
(* The HTTP server (simple_api_server.py)                                  *)
(***************************************************************************)

\* Line 158
HistoryLimit == 50

\* Line 84
HistoryPage == 10

\* Responses stored in one life of the process
MaxResponses == 52

\* dict.get(key, default)
Get(d, key, default) == IF key \in DOMAIN d THEN d[key] ELSE default

\* Bodies of /api/process requests (lines 100-102)
Requests ==
    [task : {"", "build", "distributed build"}, github_url : {""},
     requirements : {""}]

\* What process_task returns, by the keys of its three return statements: the
\* record of lines 313-329 (success only with COMPLETE, line 314), the same
\* record with the tokens_used of a test double passed through (lines 331-335),
\* and the error record of lines 341-345
RunRecords ==
    {[success |-> s,
      agent_sequence |-> agents,
      agent_outputs |-> "agent_outputs",
      final_result |-> "final_result",
      code |-> None,
      final_decision |-> d,
      execution_time_ms |-> RunTimeMs,
      total_tokens |-> t,
      payment |-> calculate_payment("unknown", 85, RunTimeMs, t, 0, NoRounding)] :
        s \in BOOLEAN, d \in {"COMPLETE", "ESCALATE"}, t \in {0, 1000}}

\* A completed run with and without token usage, an escalated run
ApiResults ==
    {r \in RunRecords : r.success = (r.final_decision = "COMPLETE")
                           /\ (r.total_tokens = 0 => r.success)}
    \cup {[tokens_used |-> 1000] @@ r : r \in {q \in RunRecords : q.total_tokens = 0 /\ q.success}}
    \cup {[success |-> FALSE, error |-> "error"]}

\* Lines 116-132
SwarmResponse(request, result) ==
    [success |-> Get(result, "success", FALSE),
     task_description |-> request.task,
     github_url |-> request.github_url,
     requirements |-> request.requirements,
     agent_sequence |-> Get(result, "agent_sequence",
                            <<"RequirementsAgent", "ContextAgent", "BuilderAgent",
                              "QualityAgent", "EscalationAgent">>),
     agent_outputs |-> Get(result, "agent_outputs", None),
     final_result |-> Get(result, "final_result", None),
     code |-> Get(result, "code", None),
     final_decision |-> Get(result, "final_decision", "COMPLETE"),
     execution_time_ms |-> Get(result, "execution_time_ms", 2500),
     tokens_used |-> Get(result, "tokens_used", 500),
     payment |-> Get(result, "payment", [amount |-> 5 * TicksPerCent, currency |-> "USD"])]

\* Lines 135-154
MockResponse(request) ==
    LET is_complex == request.task \in {"distributed build"}
        has_github == request.github_url # ""
    IN  [success |-> TRUE,
         task_description |-> request.task,
         github_url |-> request.github_url,
         requirements |-> request.requirements,
         agent_sequence |-> <<"RequirementsAgent", "ContextAgent", "BuilderAgent",
                              "QualityAgent", "EscalationAgent">>,
         final_decision |-> IF is_complex THEN "ESCALATE" ELSE "COMPLETE",
         code |-> IF is_complex THEN None ELSE "def process_task",
         execution_time_ms |-> 2500,
         tokens_used |-> 750,
         github_analyzed |-> has_github]

\* Variant: the entry just appended is the one dropped from a full history
StoreInHistoryDropNewest(task_history, entry) ==
    LET appended == Append(task_history, entry)
    IN  IF Len(appended) > HistoryLimit
        THEN SubSeq(appended, 1, Len(appended) - 1)
        ELSE appended

\* Lines 157-159
StoreInHistory(task_history, entry) ==
    LET appended == Append(task_history, entry)
    IN  IF Len(appended) > HistoryLimit THEN Tail(appended) ELSE appended

\* other holds the globals of the module: swarm (lines 22-28, FALSE for None)
\* and task_history (line 31), whose entries are named by their number among
\* the responses stored so far (responses); ext_in is the body of the last request,
\* results what process_task returned for it, response what was sent.
ApiInit ==
    /\ SwarmInit
    /\ task_description = <<"str", "">>
    /\ pc = "listening"
    /\ response = None
    /\ pay_in = None
    /\ payment = None
    /\ other \in [swarm : BOOLEAN, task_history : {<<>>}, responses : {0}]
    /\ results = <<>>
    /\ ext_in = None
    /\ ext_out = None

\* Lines 111-132 and 156-161: the swarm processes the task
ProcessWithSwarm ==
    /\ other.responses < MaxResponses
    /\ other.swarm
    /\ \E request \in Requests, result \in ApiResults :
          /\ request.task # ""
          /\ ext_in' = request
          /\ results' = <<result>>
          /\ other' = [other EXCEPT
                          !.responses = @ + 1,
                          !.task_history = StoreInHistory(@, other.responses + 1)]
          /\ pc' = "processed"
          /\ response' = [status |-> 200, body |-> SwarmResponse(request, result)]
    /\ UNCHANGED <<swarmVars, task_description, pay_in, payment, ext_out>>

\* Lines 133-161: no swarm or no task
ProcessMock ==
    /\ other.responses < MaxResponses
    /\ \E request \in Requests :
          /\ ~other.swarm \/ request.task = ""
          /\ ext_in' = request
          /\ results' = <<>>
          /\ other' = [other EXCEPT
                          !.responses = @ + 1,
                          !.task_history = StoreInHistory(@, other.responses + 1)]
          /\ pc' = "mocked"
          /\ response' = [status |-> 200, body |-> MockResponse(request)]
    /\ UNCHANGED <<swarmVars, task_description, pay_in, payment, ext_out>>

\* Lines 98-99 and 163-164: the body is not a JSON object
ProcessFails ==
    /\ ext_in' = None
    /\ results' = <<>>
    /\ pc' = "failed"
    /\ response' = [status |-> 500, body |-> [error |-> "error"]]
    /\ UNCHANGED <<swarmVars, task_description, payVars, ext_out>>

\* Lines 166-168
Clear ==
    /\ other' = [other EXCEPT !.task_history = <<>>]
    /\ pc' = "cleared"
    /\ response' = [status |-> 200, body |-> [message |-> "History cleared", success |-> TRUE]]
    /\ UNCHANGED <<swarmVars, task_description, results, pay_in, payment, extVars>>

\* Lines 83-84
History ==
    /\ pc' = "listed"
    /\ response' = [status |-> 200, body |-> LastN(other.task_history, HistoryPage)]
    /\ UNCHANGED <<swarmVars, task_description, results, payVars, extVars>>

ApiNext == ProcessWithSwarm \/ ProcessMock \/ ProcessFails \/ Clear \/ History

ApiSpec == ApiInit /\ [][ApiNext]_vars

(***************************************************************************)
(* Properties                                                              *)
(***************************************************************************)

\* C1: in every state of every run, whatever directives the agents emit, the
\* agent sequence holds at most max_iterations activations and at most
\* max_handoffs transitions have been applied; a handoff that would break a
\* bound is refused before it is applied.
C1BoundsNeverExceeded ==
    /\ Len(node_history) <= max_iterations
    /\ handoffs <= max_handoffs
    /\ HandoffCount(node_history) <= max_handoffs

\* A run stopped by the iteration limit with a full agent sequence
C1Witness ==
    /\ completion_status = "iteration_limit"
    /\ Len(node_history) = max_iterations

IsRunResult == pc = "returned" /\ "final_decision" \in DOMAIN response

IsErrorRecord == pc = "returned" /\ "error" \in DOMAIN response

\* C4, as claimed: in every Run Result, success is true exactly when the run
\* terminated normally and the final_decision of that same record is COMPLETE.
C4Claim ==
    IsRunResult =>
        (response.success <=>
            (completion_status = "success" /\ response.final_decision = "COMPLETE"))

\* C5, as claimed: every record process_task returns has a final_decision that
\* is COMPLETE or ESCALATE.
C5Original ==
    pc = "returned" =>
        /\ "final_decision" \in DOMAIN response
        /\ response.final_decision \in {"COMPLETE", "ESCALATE"}

\* C5, amended: every record returned on the non-exception path has a
\* final_decision, which for a result object of the swarm is COMPLETE or
\* ESCALATE (a dict from a test double passes its own final_decision through);
\* the error record of the exception path has no final_decision.
C5Amended ==
    pc = "returned" =>
        IF "error" \in DOMAIN response
        THEN "final_decision" \notin DOMAIN response
        ELSE /\ "final_decision" \in DOMAIN response
             /\ phase # "mocked" => response.final_decision \in {"COMPLETE", "ESCALATE"}

\* The Run Result of a run stopped by a bound, whose last text asks to escalate
C5Witness ==
    /\ IsRunResult
    /\ phase = "done"
    /\ completion_status \in BoundTags
    /\ response.final_decision = "ESCALATE"

\* C6, as claimed: process_task never raises to its caller, and what it
\* returns for an exception is the record with success false, the task
\* description and the exception text.
C6Claim ==
    /\ pc # "raised"
    /\ IsErrorRecord =>
          /\ response.success = FALSE
          /\ response.task_description = task_description
          /\ DOMAIN response = {"success", "task_description", "error"}

FailureTagKeys == {"status", "failure", "failure_tag", "failure_reason", "tag", "reason", "error"}

\* C7, as claimed: the Run Result of a run that ended by a bound violation or
\* a timeout has success false and a failure tag, and carries the agent
\* sequence and agent outputs gathered before the failure.
C7Claim ==
    (/\ IsRunResult
     /\ phase = "done"
     /\ completion_status \in BoundTags \cup TimeoutTags) =>
        /\ response.success = FALSE
        /\ DOMAIN response \cap FailureTagKeys # {}
        /\ response.agent_sequence = node_history
        /\ DOMAIN response.agent_outputs = Range(node_history)

\* C8: in every record of the non-exception path, handoff_count is
\* len(agent_sequence) - 1 for a sequence of more than one entry and 0
\* otherwise, and it is never negative.
C8HandoffCount ==
    (pc = "returned" /\ "handoff_count" \in DOMAIN response) =>
        /\ response.handoff_count >= 0
        /\ Len(response.agent_sequence) > 1 =>
              response.handoff_count = Len(response.agent_sequence) - 1
        /\ Len(response.agent_sequence) <= 1 => response.handoff_count = 0

\* The record of a run whose first activation timed out: an empty sequence
C8Witness ==
    /\ pc = "returned"
    /\ "handoff_count" \in DOMAIN response
    /\ completion_status = "node_timeout"
    /\ response.agent_sequence = <<>>
    /\ response.handoff_count = 0

\* C9: for every complexity tag, quality score, execution time and token
\* count, the amount is at least one cent and a whole number of cents.
C9WholeCents ==
    pc = "paid" =>
        /\ payment.amount >= TicksPerCent
        /\ payment.amount % TicksPerCent = 0

\* The cheapest call: lowest tiers, a negative token count
C9Witness ==
    /\ pc = "paid"
    /\ pay_in.tokens_used < 0
    /\ pay_in.quality_score < 0
    /\ payment.breakdown.time_tier = "slow"
    /\ payment.amount = 2 * TicksPerCent

Abs(x) == IF x >= 0 THEN x ELSE -x

\* C10: the amount is max(0.01, round(base_price * quality_multiplier *
\* time_multiplier + token_cost, 2)), where token_cost is one tick per token
\* and 0 for tokens_used <= 0 (at an exact half cent the rounding goes to
\* either neighbour); (simple, 90, 20000 ms, 1000 tokens) pays 0.04 and
\* (complex, 60, 150000 ms, 0 tokens) pays 0.15.
C10Formula ==
    pc = "paid" =>
        LET b == payment.breakdown
            token_cost == IF pay_in.tokens_used <= 0 THEN 0 ELSE pay_in.tokens_used
            total == b.base_price * b.quality_multiplier * b.time_multiplier * 10 + token_cost
            below == (total \div TicksPerCent) * TicksPerCent
        IN  /\ \E rounded \in {below, below + TicksPerCent} :
                  /\ 2 * Abs(rounded - total) <= TicksPerCent
                  /\ payment.amount = Max(TicksPerCent, rounded)
            /\ (/\ pay_in.complexity = "simple" /\ pay_in.quality_score = 90
                /\ pay_in.execution_time_ms = 20000 /\ pay_in.tokens_used = 1000) =>
                  payment.amount = 4 * TicksPerCent
            /\ (/\ pay_in.complexity = "complex" /\ pay_in.quality_score = 60
                /\ pay_in.execution_time_ms = 150000 /\ pay_in.tokens_used = 0) =>
                  payment.amount = 15 * TicksPerCent

\* The first worked example
C10Witness ==
    /\ pc = "paid"
    /\ pay_in.complexity = "simple" /\ pay_in.quality_score = 90
    /\ pay_in.execution_time_ms = 20000 /\ pay_in.tokens_used = 1000
    /\ payment.amount = 4 * TicksPerCent

QualityRank == [needs_work |-> 0, acceptable |-> 1, good |-> 2, excellent |-> 3]

TimeRank == [slow |-> 0, normal |-> 1, fast |-> 2, very_fast |-> 3]

ComparedOn(field) ==
    /\ pc = "compared"
    /\ other.input = [pay_in EXCEPT ![field] = other.input[field]]

\* C11: for fixed complexity, execution time and token count, the amount does
\* not decrease when the quality tier rises (excellent >= good >= acceptable
\* >= needs_work), and so does not decrease when the quality score rises.
C11QualityMonotone ==
    ComparedOn("quality_score") =>
        /\ QualityRank[other.payment.breakdown.quality_tier]
              >= QualityRank[payment.breakdown.quality_tier]
           => other.payment.amount >= payment.amount
        /\ other.input.quality_score >= pay_in.quality_score
           => other.payment.amount >= payment.amount

\* Neighbouring tiers at a half-cent total: good pays strictly more than acceptable
C11Witness ==
    /\ ComparedOn("quality_score")
    /\ payment.breakdown.quality_tier = "acceptable"
    /\ other.payment.breakdown.quality_tier = "good"
    /\ other.payment.amount > payment.amount
    /\ pay_in.complexity = "simple" /\ pay_in.tokens_used = 70500

\* C12: for fixed complexity, quality score and token count, the amount does
\* not increase when the execution time grows: very_fast >= fast >= normal >=
\* slow.
C12TimeMonotone ==
    ComparedOn("execution_time_ms") =>
        /\ TimeRank[other.payment.breakdown.time_tier]
              >= TimeRank[payment.breakdown.time_tier]
           => other.payment.amount >= payment.amount
        /\ other.input.execution_time_ms >= pay_in.execution_time_ms
           => other.payment.amount <= payment.amount

\* The two edges of the normal tier: 120000 ms pays more than 120001 ms
C12Witness ==
    /\ ComparedOn("execution_time_ms")
    /\ pay_in.execution_time_ms = 120000
    /\ other.input.execution_time_ms = 120001
    /\ payment.breakdown.time_tier = "normal"
    /\ other.payment.breakdown.time_tier = "slow"
    /\ other.payment.amount < payment.amount

DecisionOf(text) == pc = "extracted" /\ ext_in.kind = "decision" /\ ext_in.text = text

HasEscalateMarker(text) == "DECISION: ESCALATE" \in text

HasCompleteMarker(text) == "DECISION: COMPLETE" \in text

\* The word ESCALATE in any letter case, and the phrase that negates it
HasEscalateWord(text) ==
    \E p \in text : Upper(p) \in {"ESCALATE", "DECISION: ESCALATE", "DO NOT ESCALATE"}

HasNegation(text) == \E p \in text : Upper(p) = "DO NOT ESCALATE"

\* C13, as claimed: the decision is ESCALATE for every text with the marker
\* "DECISION: ESCALATE", COMPLETE for every text with the marker "DECISION:
\* COMPLETE", and COMPLETE for every text with neither marker.
C13Original ==
    (pc = "extracted" /\ ext_in.kind = "decision") =>
        LET text == ext_in.text IN
            /\ HasEscalateMarker(text) => ext_out = "ESCALATE"
            /\ HasCompleteMarker(text) => ext_out = "COMPLETE"
            /\ (~HasEscalateMarker(text) /\ ~HasCompleteMarker(text)) => ext_out = "COMPLETE"

\* C13, amended: the decision is ESCALATE for every text with the marker
\* "DECISION: ESCALATE"; COMPLETE for every text with the marker "DECISION:
\* COMPLETE" and without the ESCALATE marker; and for a text with neither
\* marker it is COMPLETE unless the word ESCALATE occurs in it, in any letter
\* case, and the phrase DO NOT ESCALATE does not, in which case it is ESCALATE.
C13Amended ==
    (pc = "extracted" /\ ext_in.kind = "decision") =>
        LET text == ext_in.text IN
            /\ HasEscalateMarker(text) => ext_out = "ESCALATE"
            /\ (HasCompleteMarker(text) /\ ~HasEscalateMarker(text)) => ext_out = "COMPLETE"
            /\ (~HasEscalateMarker(text) /\ ~HasCompleteMarker(text)) =>
                  ext_out = IF HasEscalateWord(text) /\ ~HasNegation(text)
                            THEN "ESCALATE" ELSE "COMPLETE"

\* A text without a marker that mentions escalation in lower case
C13Witness ==
    /\ DecisionOf({"prose", "escalate"})
    /\ ext_out = "ESCALATE"

CodeOf(code_blocks, builder) ==
    /\ pc = "extracted"
    /\ ext_in.kind = "code"
    /\ ext_in.code_blocks = code_blocks
    /\ ext_in.builder = builder

IsTestModule(block) == Markers(block) \cap {"def test_", "import pytest"} # {}

HasDefinition(block) == Markers(block) \cap {"def ", "class "} # {}

C15Claim ==
    (pc = "extracted" /\ ext_in.kind = "quality" /\ ~ext_out.raised) =>
        ext_out.value \in 0..100

BreakdownKeys ==
    {"base_price", "complexity", "quality_score", "quality_tier", "quality_multiplier",
     "execution_time_sec", "time_tier", "time_multiplier", "token_cost", "tokens_used",
     "code_lines"}

Clamp(x, lo, hi) == IF x < lo THEN lo ELSE IF x > hi THEN hi ELSE x

\* C16: calculate_payment returns an amount with the full breakdown for every
\* input; an absent or unrecognized complexity tag is priced with the base
\* price of unknown, 0.05, and a quality score outside 0..100, a negative
\* execution time and a negative token count are priced as the nearest valid
\* value (0 or 100, 0 ms, 0 tokens).
C16NeverRejects ==
    pc = "paid" =>
        LET tag == IF pay_in.complexity \in {"simple", "medium", "complex", "unknown",
                                             "SIMPLE", "Complex"}
                   THEN pay_in.complexity ELSE "unknown"
            score == Clamp(pay_in.quality_score, 0, 100)
            time == Max(pay_in.execution_time_ms, 0)
            tokens == Max(pay_in.tokens_used, 0)
        IN  /\ DOMAIN payment = {"amount", "currency", "breakdown"}
            /\ DOMAIN payment.breakdown = BreakdownKeys
            /\ payment.amount >= TicksPerCent
            /\ tag = "unknown" => payment.breakdown.base_price = 5
            /\ \E h \in Roundings(tag, score, time, tokens) :
                  payment.amount = calculate_payment(tag, score, time, tokens, 0, h).amount

\* Every argument invalid at once: priced as (unknown, 0, 0 ms, 0 tokens)
C16Witness ==
    /\ pc = "paid"
    /\ pay_in.complexity = "epic"
    /\ pay_in.quality_score = -5
    /\ pay_in.execution_time_ms = -1
    /\ pay_in.tokens_used = -100000
    /\ payment.breakdown.base_price = 5
    /\ payment.breakdown.quality_tier = "needs_work"
    /\ payment.breakdown.time_tier = "very_fast"
    /\ payment.breakdown.token_cost = 0
    /\ payment.amount = 4 * TicksPerCent

\* In a run ended by a timeout every recorded activation handed off, so the
\* activation in flight at the timeout is not among the recorded ones; and the
\* Run Result holds the recorded activations only.
TimeoutRecord ==
    completion_status \in TimeoutTags =>
        /\ phase = "done"
        /\ Len(node_history) = handoffs
        /\ (pc = "returned" /\ "agent_sequence" \in DOMAIN response) =>
              /\ response.agent_sequence = node_history
              /\ DOMAIN response.agent_outputs = Range(node_history)
              /\ DOMAIN results = Range(node_history)

\* The step into a timeout leaves the recorded activations as they are
TimeoutStep ==
    (completion_status = "executing" /\ completion_status' \in TimeoutTags) =>
        /\ node_history' = node_history
        /\ handoffs' = handoffs
        /\ phase' = "done"

\* After a timeout the machine takes no further step
TimeoutFinal ==
    completion_status \in TimeoutTags =>
        UNCHANGED <<current_node, node_history, handoffs, completion_status, phase>>

\* C17: on a node timeout or an execution timeout the activation in flight is
\* abandoned: the run is terminated with a timeout tag, nothing of the
\* abandoned activation enters the agent sequence, the node results or the
\* agent outputs, and the activations recorded before stay as they were.
C17TimeoutDiscards ==
    /\ []TimeoutRecord
    /\ [][TimeoutStep /\ TimeoutFinal]_vars

\* A node timeout in a later activation: the Run Result holds the two
\* activations before it and nothing of the builder's
C17Witness ==
    /\ completion_status = "node_timeout"
    /\ pc = "returned"
    /\ node_history = <<"requirements_agent", "context_agent">>
    /\ current_node = "builder_agent"
    /\ "agent_sequence" \in DOMAIN response
    /\ response.agent_sequence = node_history
    /\ "builder_agent" \notin DOMAIN response.agent_outputs

HasFreeEscalateWord(text) == \E p \in text : Upper(p) \in {"ESCALATE", "DECISION: ESCALATE"}

\* C19, as claimed: for a text with neither marker the decision is ESCALATE
\* exactly when the word ESCALATE occurs somewhere other than inside the
\* phrase DO NOT ESCALATE, and COMPLETE otherwise; with both markers present
\* the decision is ESCALATE.
C19Claim ==
    (pc = "extracted" /\ ext_in.kind = "decision") =>
        LET text == ext_in.text IN
            /\ (~HasEscalateMarker(text) /\ ~HasCompleteMarker(text)) =>
                  (ext_out = "ESCALATE" <=> HasFreeEscalateWord(text))
            /\ (~HasEscalateMarker(text) /\ ~HasCompleteMarker(text)) =>
                  ext_out \in {"ESCALATE", "COMPLETE"}
            /\ (HasEscalateMarker(text) /\ HasCompleteMarker(text)) => ext_out = "ESCALATE"

\* C20, as claimed: the text the decision of a Run Result is extracted from is
\* the text of the activation that ended the run, the last entry of
\* agent_sequence.
C20Claim ==
    (/\ pc = "returned"
     /\ phase = "done"
     /\ "final_decision" \in DOMAIN response
     /\ node_history # <<>>
     /\ results[node_history[Len(node_history)]] # {}) =>
        /\ response.final_result = results[node_history[Len(node_history)]]
        /\ response.final_decision = extract_decision(results[node_history[Len(node_history)]])

\* C21, as claimed: when the terminal text has no fenced block, the code is
\* chosen among the blocks of the builder's text by the rule of the terminal
\* text (the first block with a definition marker and without the test markers
\* of that rule, else the first block); when neither text has a block, code is
\* None.
C21Claim ==
    (pc = "extracted" /\ ext_in.kind = "code" /\ ext_in.code_blocks = <<>>) =>
        IF ext_in.builder = <<>> \/ ext_in.builder[1] = <<>>
        THEN ext_out.code = None
        ELSE LET blocks == ext_in.builder[1]
                 qualifying == {i \in 1..Len(blocks) :
                                   HasDefinition(blocks[i]) /\ ~IsTestModule(blocks[i])}
                 chosen == IF qualifying # {}
                           THEN CHOOSE i \in qualifying : \A j \in qualifying : i <= j
                           ELSE 1
             IN  ext_out.index = chosen /\ ext_out.code = Strip(blocks[chosen])

C23Claim ==
    (pc = "extracted" /\ ext_in.kind = "complexity") =>
        LET known == SelectSeq(ext_in.tags, LAMBDA t : t \in {"simple", "medium", "complex"})
        IN  /\ ext_out \in {"simple", "medium", "complex", "unknown"}
            /\ ext_out = IF ext_in.ran /\ known # <<>> THEN known[1] ELSE "unknown"

\* The last activation of a role in the history
LatestActivation(role) ==
    CHOOSE i \in 1..Len(ext_in.node_history) :
        /\ ext_in.node_history[i].node_id = role
        /\ \A j \in (i + 1)..Len(ext_in.node_history) :
              ext_in.node_history[j].node_id # role

\* C24, as claimed: at the end of the run the shared-context entry and the
\* agent_outputs entry of every role are those of the role's latest
\* activation.
C24Claim ==
    (pc = "recorded" /\ ext_in.kind = "history") =>
        \A role \in {ext_in.node_history[i].node_id : i \in 1..Len(ext_in.node_history)} :
            LET last == LatestActivation(role)
                node == ext_in.node_history[last]
            IN  /\ role \in DOMAIN ext_out.agent_outputs
                /\ ext_out.agent_outputs[role] =
                      [response |-> Attr(node.response, last),
                       context |-> Attr(node.context, last),
                       handoff_message |-> Attr(node.handoff_message, last)]
                /\ role \in DOMAIN ext_out.knowledge =>
                      ext_out.knowledge[role].contribution = last

\* The part of C24 that holds: no entry is removed during the run
C24NeverRemoved ==
    [][(pc \in {"agent_outputs", "shared_knowledge"} /\ pc' = pc) =>
          /\ DOMAIN ext_out.agent_outputs \subseteq DOMAIN ext_out'.agent_outputs
          /\ DOMAIN ext_out.knowledge \subseteq DOMAIN ext_out'.knowledge]_vars

\* C25: the tiers of the breakdown follow the threshold tables at every
\* boundary: a score of 95 or more is excellent, 85..94 good, 70..84
\* acceptable, less needs_work; a time below 30 s is very_fast, from 30 s to
\* below 60 s fast, from 60 s to 120 s inclusive normal, above slow, a
\* non-positive time counting as 0 s; the multipliers are 1.30, 1.15, 1.00,
\* 0.80 and 1.10, 1.05, 1.00, 0.95.
C25TierBoundaries ==
    pc = "paid" =>
        LET b == payment.breakdown
            score == pay_in.quality_score
            ms == IF pay_in.execution_time_ms <= 0 THEN 0 ELSE pay_in.execution_time_ms
        IN  /\ b.quality_tier = "excellent" <=> score >= 95
            /\ b.quality_tier = "good" <=> score \in 85..94
            /\ b.quality_tier = "acceptable" <=> score \in 70..84
            /\ b.quality_tier = "needs_work" <=> score < 70
            /\ b.time_tier = "very_fast" <=> ms < 30000
            /\ b.time_tier = "fast" <=> (ms >= 30000 /\ ms < 60000)
            /\ b.time_tier = "normal" <=> (ms >= 60000 /\ ms <= 120000)
            /\ b.time_tier = "slow" <=> ms > 120000
            /\ <<b.quality_tier, b.quality_multiplier>> \in
                  {<<"excellent", 130>>, <<"good", 115>>, <<"acceptable", 100>>,
                   <<"needs_work", 80>>}
            /\ <<b.time_tier, b.time_multiplier>> \in
                  {<<"very_fast", 110>>, <<"fast", 105>>, <<"normal", 100>>, <<"slow", 95>>}

\* Both tables at a boundary: exactly 120 s is still normal, a score of 95 is
\* already excellent
C25Witness ==
    /\ pc = "paid"
    /\ pay_in.execution_time_ms = 120000
    /\ pay_in.quality_score = 95
    /\ payment.breakdown.time_tier = "normal"
    /\ payment.breakdown.time_multiplier = 100
    /\ payment.breakdown.quality_tier = "excellent"
    /\ payment.breakdown.quality_multiplier = 130

\* C26: the code line count is not priced: two calls of calculate_payment that
\* differ only in code_lines return the same amount and the same breakdown
\* but for code_lines, which carries each call's input.
C26CodeLinesNotPriced ==
    ComparedOn("code_lines") =>
        /\ other.payment.amount = payment.amount
        /\ other.payment.currency = payment.currency
        /\ [other.payment.breakdown EXCEPT !.code_lines = pay_in.code_lines]
              = payment.breakdown
        /\ payment.breakdown.code_lines = pay_in.code_lines
        /\ other.payment.breakdown.code_lines = other.input.code_lines

\* A call without code and one with 12 lines, priced above the minimum
C26Witness ==
    /\ ComparedOn("code_lines")
    /\ pay_in.code_lines = 0
    /\ other.input.code_lines = 12
    /\ other.payment.breakdown.code_lines = 12
    /\ payment.amount > TicksPerCent
    /\ other.payment.amount = payment.amount

\* C27: after any sequence of /api/process and /api/clear requests the task
\* history holds at most 50 entries, which are the most recent responses in
\* the order of their arrival (the oldest is dropped first); /api/clear leaves
\* it empty and /api/history returns its last 10 entries at most.
C27HistoryBounded ==
    ("task_history" \in DOMAIN other) =>
        LET h == other.task_history
        IN  /\ Len(h) <= HistoryLimit
            /\ \A i \in 1..Len(h) : h[i] = other.responses - Len(h) + i
            /\ pc = "cleared" => h = <<>>
            /\ pc = "listed" =>
                  LET page == response.body
                  IN  /\ Len(page) <= HistoryPage
                      /\ Len(page) = IF Len(h) < HistoryPage THEN Len(h) ELSE HistoryPage
                      /\ \A i \in 1..Len(page) : page[i] = h[Len(h) - Len(page) + i]

\* A full history that has dropped its oldest entries, and a page of it
C27Witness ==
    /\ pc = "listed"
    /\ Len(other.task_history) = HistoryLimit
    /\ other.task_history[1] > 1
    /\ Len(response.body) = HistoryPage
    /\ response.body[HistoryPage] = other.responses

\* C30, as claimed: for a request processed by the swarm the tokens_used of the
\* HTTP response is the total_tokens of the record process_task returned.
C30Claim ==
    (pc = "processed" /\ "total_tokens" \in DOMAIN results[1]) =>
        response.body.tokens_used = results[1].total_tokens

\* The activations so far follow the prompted order from the first role on
InPipelineOrder ==
    /\ Len(node_history) <= Len(agents)
    /\ \A i \in 1..Len(node_history) : node_history[i] = agents[i]

\* C28: a run in which every role hands off to the next one in the order
\* requirements, context, builder, quality, escalation is stopped by none of
\* max_handoffs, max_iterations and the repetitive-handoff detection, also
\* while the sequence is shorter than the window; when the escalation role
\* then emits no directive, the run ends normally with exactly 5 activations
\* and 4 handoffs.
C28PipelineCompletes ==
    InPipelineOrder =>
        /\ completion_status \notin BoundTags
        /\ handoffs <= Len(node_history)
        /\ (completion_status = "success" /\ node_history = agents) =>
              /\ Len(node_history) = 5
              /\ handoffs = 4
              /\ detours = 0

\* The whole pipeline has run and the escalation role has returned
C28Witness ==
    /\ completion_status = "success"
    /\ node_history = agents
    /\ current_node = "escalation_agent"
    /\ handoffs = 4

\* C29: every record of the non-exception path of process_task carries a
\* payment of at least one cent, also when the decision is ESCALATE or success
\* is false; only the error record of the exception path has no payment.
C29PaymentPresent ==
    pc = "returned" =>
        /\ IsErrorRecord <=> "payment" \notin DOMAIN response
        /\ ~IsErrorRecord =>
              /\ DOMAIN response.payment = {"amount", "currency", "breakdown"}
              /\ response.payment.amount >= TicksPerCent

\* An escalated run that also failed: its record is paid
C29Witness ==
    /\ pc = "returned"
    /\ completion_status \in FailureTags
    /\ "final_decision" \in DOMAIN response
    /\ response.final_decision = "ESCALATE"
    /\ response.success = FALSE
    /\ response.payment.amount >= TicksPerCent

=============================================================================
